---- MODULE Spec2Model ----
(***************************************************************************)
(* Backupbrace: the incremental backup engine.                             *)
(*                                                                         *)
(* The model follows closingbrace/backup.py: the BackupSet state machine,  *)
(* the Backup aggregate with its state file, the BackupManager with its    *)
(* cross-generation lookup, and the top-level run that drives them.  The   *)
(* disk (backup directories, state files, destination trees) outlives the  *)
(* process; the process memory is lost when the process ends.              *)
(***************************************************************************)
EXTENDS Integers, Sequences, FiniteSets, TLC

\* ------------------------------------------------------------------ bounds

\* The clock takes the values 0..MaxTime (seconds), so that at most
\* MaxTime + 1 backup directories can be made.
MaxTime == 1
\* The number of calls of Backup.create on one Backup object (SpecApi only).
MaxCreates == 2
\* The number of Backups of a collection that find_latest_set is called on
\* on its own (SpecLookup only), and the greatest of their timestamps.
MaxBackups == 3
MaxStamp == 2
\* The number of operations that fail in one call of clone_tree on its own
\* (SpecClone only).
MaxFailures == 2
\* The depth at which the recursion of clone_tree is given up (Python's
\* recursion limit); the source trees are less deep.
MaxDepth == 3

\* ------------------------------------------------------- BackupSet.States

CONFIGURED == 0
CLONING == 1
CLONED == 2
SYNCHRONIZING == 3
FINISHED == 4

States == {CONFIGURED, CLONING, CLONED, SYNCHRONIZING, FINISHED}

\* Enum member .name
StateName(s) ==
    CASE s = CONFIGURED -> "CONFIGURED"
      [] s = CLONING -> "CLONING"
      [] s = CLONED -> "CLONED"
      [] s = SYNCHRONIZING -> "SYNCHRONIZING"
      [] s = FINISHED -> "FINISHED"

\* States.from_string raises ValueError for any other name.
from_string_raises(name) ==
    name \notin {"CONFIGURED", "CLONING", "CLONED", "SYNCHRONIZING", "FINISHED"}

from_string(name) ==
    IF name = "CONFIGURED" THEN CONFIGURED
    ELSE IF name = "CLONING" THEN CLONING
    ELSE IF name = "CLONED" THEN CLONED
    ELSE IF name = "SYNCHRONIZING" THEN SYNCHRONIZING
    ELSE FINISHED

\* ------------------------------------------------------------- timestamps

Times == 0..MaxTime

\* datetime.min, the start value of find_latest_set's scan.
DatetimeMin == -1

\* datetime.isoformat() of a timestamp with microsecond = 0.
IsoTable ==
    <<"2020-01-01T00:00:00", "2020-01-01T00:00:01", "2020-01-01T00:00:02",
      "2020-01-01T00:00:03", "2020-01-01T00:00:04", "2020-01-01T00:00:05",
      "2020-01-01T00:00:06", "2020-01-01T00:00:07">>

isoformat(t) == IsoTable[t + 1]

\* dateutil.parser.parse: raises ValueError on a string that is no date.
parse_raises(s) == \A i \in 1..Len(IsoTable) : IsoTable[i] # s

parse(s) == (CHOOSE i \in 1..Len(IsoTable) : IsoTable[i] = s) - 1

\* ------------------------------------------------------------ JSON values

\* A JSON / Python value, as <<type, content>>: a string, an object (an
\* insertion-ordered dict: a sequence of <<key, value>> pairs with distinct
\* keys), a datetime or a BackupSet.States member.
JStr(s) == <<"str", s>>
JObj(d) == <<"obj", d>>
PyTime(n) == <<"datetime", n>>
PyState(n) == <<"state", n>>

TypeOf(v) == v[1]
ValueOf(v) == v[2]

DictHas(d, k) == \E i \in 1..Len(d) : d[i][1] = k

DictGet(d, k) == d[CHOOSE i \in 1..Len(d) : d[i][1] = k][2]

\* d[k] = v on a Python dict: an existing key keeps its position.
DictSet(d, k, v) ==
    IF DictHas(d, k)
    THEN [i \in 1..Len(d) |-> IF d[i][1] = k THEN <<k, v>> ELSE d[i]]
    ELSE Append(d, <<k, v>>)

\* --------------------------------------------------------- state file I/O

\* {set_.name: set_.state.name for set_ in self._sets}
RECURSIVE SetsDict(_)
SetsDict(sets) ==
    IF sets = <<>> THEN <<>>
    ELSE LET last == sets[Len(sets)]
         IN  DictSet(SetsDict(SubSeq(sets, 1, Len(sets) - 1)),
                     last.name, JStr(StateName(last.state)))

\* The document json.dump writes: {"timestamp": ..., "sets": {...}}, the
\* timestamp encoded by TimestampEncoder.
StateDocument(timestamp, sets) ==
    JObj(<< <<"timestamp", JStr(isoformat(timestamp))>>,
            <<"sets", JObj(SetsDict(sets))>> >>)

\* A file: absent, empty (just truncated by open(..., "w")) or holding a
\* JSON document.
NoFile == [kind |-> "none", doc |-> JStr("")]
EmptyFile == [kind |-> "empty", doc |-> JStr("")]
JsonFile(doc) == [kind |-> "json", doc |-> doc]

\* decode_state_json raises (ValueError from the date parser or from
\* from_string, TypeError from indexing a string with a string).
decode_raises(dct) ==
    \/ /\ DictHas(dct, "timestamp")
       /\ LET v == DictGet(dct, "timestamp")
          IN  TypeOf(v) # "str" \/ parse_raises(ValueOf(v))
    \/ /\ DictHas(dct, "sets")
       /\ LET sets == DictGet(dct, "sets")
          IN  CASE TypeOf(sets) = "obj" ->
                     \E i \in 1..Len(ValueOf(sets)) :
                        LET v == ValueOf(sets)[i][2]
                        IN  \/ TypeOf(v) # "str"
                            \/ from_string_raises(ValueOf(v))
                [] TypeOf(sets) = "str" -> ValueOf(sets) # ""
                [] OTHER -> TRUE

decode_state_json(dct) ==
    [i \in 1..Len(dct) |->
        IF dct[i][1] = "timestamp"
        THEN <<"timestamp", PyTime(parse(ValueOf(dct[i][2])))>>
        ELSE IF dct[i][1] = "sets"
        THEN <<"sets",
               JObj(IF TypeOf(dct[i][2]) = "obj"
                    THEN [j \in 1..Len(ValueOf(dct[i][2])) |->
                            <<ValueOf(dct[i][2])[j][1],
                              PyState(from_string(
                                  ValueOf(ValueOf(dct[i][2])[j][2])))>>]
                    ELSE <<>>)>>
        ELSE dct[i]]

\* json.load(fp, object_hook=decode_state_json): the hook is called on every
\* object of the document, the innermost first.
InnerRaises(doc) ==
    \E i \in 1..Len(ValueOf(doc)) :
        LET v == ValueOf(doc)[i][2]
        IN  TypeOf(v) = "obj" /\ decode_raises(ValueOf(v))

InnerDecoded(doc) ==
    [i \in 1..Len(ValueOf(doc)) |->
        LET v == ValueOf(doc)[i][2]
        IN  IF TypeOf(v) = "obj"
            THEN <<ValueOf(doc)[i][1], JObj(decode_state_json(ValueOf(v)))>>
            ELSE ValueOf(doc)[i]]

json_load_raises(doc) == InnerRaises(doc) \/ decode_raises(InnerDecoded(doc))

json_load(doc) == decode_state_json(InnerDecoded(doc))

\* ------------------------------------------------------------------- disk

\* Ordinary set names, and the names that are also keys of the state file.
Names == {"a", "b"}
SpecialNames == {"timestamp", "sets"}
AllNames == Names \cup SpecialNames

\* new_backup names the backup directory by the ISO timestamp.
DirNames == {isoformat(t) : t \in Times}

\* A destination tree <backup dir>/<set name>: absent, partial (a clone or a
\* synchronization that stopped halfway), cloned (a complete clone of its
\* source) or synced (the synchronizer exited with 0).
TreeStates == {"absent", "partial", "cloned", "synced"}

NoDir == [exists |-> FALSE, file |-> NoFile,
          trees |-> [n \in AllNames |-> "absent"]]

\* os.path.join(backup_dir, set_name); None when the lookup finds nothing.
Location(dir, name) == [dir |-> dir, name |-> name]
None == [dir |-> "", name |-> ""]

\* ----------------------------------------------------------------- memory

\* A Backup object: _backup_dir, timestamp, _sets (BackupSet: name, state).
NoBackup == [dir |-> "", timestamp |-> DatetimeMin, sets |-> <<>>]

NoError == [kind |-> "", at |-> ""]

\* The lists of set names a configuration file can hold: nothing checks the
\* names (config.backup_sets, Backup.add_local_dir_set, add_remote_dir_set),
\* so a name can come twice and can be a key of the state file.  The
\* program treats the ordinary names alike, so one list stands for those
\* that differ from it by a renaming of "a" and "b".
Configs ==
    {<<>>, <<"a">>, <<"a", "b">>, <<"a", "a">>,
     <<"timestamp">>, <<"sets">>, <<"a", "timestamp">>, <<"a", "sets">>}

VARIABLES
    disk,            \* DirNames -> directory: exists, state file, trees
    clock,           \* the last value read from the system clock
    config,          \* the backup sets of the configuration file
    baseIsDir,       \* the base directory of the configuration exists
    pc,              \* where the process is
    ret,             \* where _save_state returns to
    loaded,          \* BackupManager._backups as loaded by _load_backups
    cur,             \* the Backup made by new_backup in this run
    registered,      \* cur has been appended to BackupManager._backups
    idx,             \* the position of create's loop in cur._sets
    err,             \* the exception that ended the run
    ext,             \* the external synchronizer process
    phase,           \* "setup" until Backup.create is called, then "create"
    creates,         \* calls of create on cur
    hist,            \* per set of cur: what create did with it
    cloneCompleted,  \* destinations a clone_tree call returned normally for
    cloneSkipped,    \* destinations create found no clone source for
    fn,              \* a function called on its own: its name, "" if none
    arg,             \* the arguments of that call
    out,             \* what the call returned or raised
    procs            \* processes that construct a Backup on their own

\* The state of the program, and the state of a call of one function of the
\* program on arguments of its own.
progVars == <<disk, clock, config, baseIsDir, pc, ret, loaded, cur,
              registered, idx, err, ext, phase, creates, hist,
              cloneCompleted, cloneSkipped>>

unitVars == <<fn, arg, out, procs>>

vars == <<progVars, unitVars>>

NoCall == <<>>

\* Two processes, each of which can construct one Backup.
Procs == {1, 2}

\* A process that has not called anything: where it is, the timestamp of
\* its Backup, the exception it raised with its message, the call that
\* raised the OSError behind it with its errno, and whether its os.mkdir
\* made the directory.
NoProc == [pc |-> "idle", timestamp |-> DatetimeMin, raised |-> "",
           message |-> "", call |-> "", errno |-> "", made |-> FALSE]

NoProcs == [p \in Procs |-> NoProc]

NoHist == [asked |-> FALSE, src |-> None, nclone |-> 0, nsync |-> 0,
           path |-> <<CONFIGURED>>]

\* The process is not running.
Stopped == {"idle", "done", "failed", "crashed"}

ProgramInit ==
    /\ disk = [d \in DirNames |-> NoDir]
    /\ clock = 0
    /\ pc = "idle"
    /\ ret = ""
    /\ loaded = <<>>
    /\ cur = NoBackup
    /\ registered = FALSE
    /\ idx = 0
    /\ err = NoError
    /\ ext = "none"
    /\ phase = "none"
    /\ creates = 0
    /\ hist = <<>>
    /\ cloneCompleted = {}
    /\ cloneSkipped = {}

Init ==
    /\ ProgramInit
    /\ config \in Configs
    /\ baseIsDir \in BOOLEAN
    /\ fn = ""
    /\ arg = NoCall
    /\ out = NoCall
    /\ procs = NoProcs

\* ------------------------------------------------------------ Backup.open

StateFile(d) == disk[d].file

\* The exception Backup(directory, new=False) ends with, "" when it returns:
\* only OSError (no directory, no state file) is turned into BackupError.
OpenError(d) ==
    IF ~disk[d].exists \/ StateFile(d).kind = "none" THEN "BackupError"
    ELSE IF StateFile(d).kind = "empty" THEN "ValueError"
    ELSE IF json_load_raises(StateFile(d).doc) THEN "ValueError"
    ELSE LET backup_state == json_load(StateFile(d).doc)
         IN  IF DictHas(backup_state, "sets")
                /\ DictHas(backup_state, "timestamp")
             THEN ""
             ELSE "KeyError"

\* A faulty variant of the next definition: _load_state leaves the
\* timestamp __init__ took from the clock.
LoadedTimestamp_Now(backup_state, now) == now

\* self.timestamp after __init__ (datetime.now()) and _load_state.
LoadedTimestamp(backup_state, now) ==
    ValueOf(DictGet(backup_state, "timestamp"))

\* [BackupSet(name, state=backup_state['sets'][name]) for name in ...]
LoadedSets(backup_state) ==
    LET sets == ValueOf(DictGet(backup_state, "sets"))
    IN  [i \in 1..Len(sets) |->
            [name |-> sets[i][1], state |-> ValueOf(sets[i][2])]]

\* Backup.open(directory) when it returns.
OpenBackup(d, now) ==
    LET backup_state == json_load(StateFile(d).doc)
    IN  [dir |-> d,
         timestamp |-> LoadedTimestamp(backup_state, now),
         sets |-> LoadedSets(backup_state)]

\* try: Backup.open(directory) in _load_backups: the Backup, or the
\* exception the constructor ends with.
OpenOutcome(d, now) ==
    LET error == OpenError(d)
    IN  [error |-> error,
         backup |-> IF error = "" THEN OpenBackup(d, now) ELSE NoBackup]

\* ---------------------------------------------------------------- lookups

\* A faulty variant of the next definition: the state of the set is not
\* looked at.
Qualifies_AnyState(set_, set_name, states) == set_.name = set_name

\* The condition of the list comprehension of find_set_location.
Qualifies(set_, set_name, states) ==
    set_.name = set_name /\ set_.state \in states

find_set_location(b, set_name, states) ==
    LET set_list == SelectSeq(b.sets,
                              LAMBDA set_ : Qualifies(set_, set_name, states))
    IN  IF set_list # <<>> THEN Location(b.dir, set_name) ELSE None

\* A faulty variant of the next definition: the comparison is turned round.
Later_Earlier(timestamp, latest_timestamp) == timestamp < latest_timestamp

\* backup.timestamp > latest_timestamp
Later(timestamp, latest_timestamp) == timestamp > latest_timestamp

\* find_latest_set's loop over backups: latest_location, latest_timestamp.
RECURSIVE LatestScan(_, _, _)
LatestScan(backups, set_name, states) ==
    IF backups = <<>> THEN [location |-> None, timestamp |-> DatetimeMin]
    ELSE LET latest == LatestScan(SubSeq(backups, 1, Len(backups) - 1),
                                  set_name, states)
             backup == backups[Len(backups)]
             location == find_set_location(backup, set_name, states)
         IN  IF location # None /\ Later(backup.timestamp, latest.timestamp)
             THEN [location |-> location, timestamp |-> backup.timestamp]
             ELSE latest

find_latest_set(backups, set_name, states) ==
    LatestScan(backups, set_name, states).location

\* A faulty variant of the next definition: the new Backup takes the place
\* of the list.
ManagerBackups_OnlyNew == IF registered THEN <<cur>> ELSE loaded

\* BackupManager._backups
ManagerBackups == IF registered THEN Append(loaded, cur) ELSE loaded

\* ------------------------------------------------------------ the process

Running == {"new_backup", "save_open", "save_dump", "register", "add",
            "create", "clone", "cloned", "sync", "sync_read", "sync_wait",
            "sync_exit", "next"}

\* os.listdir gives the directories in any order.
RECURSIVE Perms(_)
Perms(S) ==
    IF S = {} THEN {<<>>}
    ELSE UNION {{Append(q, d) : q \in Perms(S \ {d})} : d \in S}

\* An exception leaves the running operation and ends the run: run() logs a
\* BackupError and exits with 1, any other exception ends the process too.
Raise(kind, at) ==
    /\ pc' = "failed"
    /\ err' = [kind |-> kind, at |-> at]

\* A faulty variant of the next definition: the base directory is not
\* looked at.
BaseMissing_Ignored(isdir_) == FALSE

\* if not os.path.isdir(directory)
BaseMissing(isdir_) == ~isdir_

\* The program starts (run, create_backup): BackupManager(backup_dir) fails
\* with BackupError when the base directory does not exist, and otherwise
\* loads the backups under the base directory.  _load_backups skips a directory
\* whose Backup.open raises BackupError; any other exception ends the run.
\* Backup.__init__ reads the clock before it loads the state; what it reads
\* is at least the last reading, and the minimum is taken here.
BackupManagerInit ==
    /\ pc \in Stopped
    /\ LET outcomes == {OpenOutcome(d, clock) :
                           d \in {e \in DirNames : disk[e].exists}}
           raised == {o \in outcomes : o.error \notin {"", "BackupError"}}
       IN  IF BaseMissing(baseIsDir)
           THEN /\ Raise("BackupError", "base")
                /\ loaded' = <<>>
           ELSE IF raised # {}
           THEN /\ \E o \in raised :
                      err' = [kind |-> o.error, at |-> "manager"]
                /\ pc' = "failed"
                /\ loaded' = <<>>
           ELSE /\ \E order \in Perms({o.backup : o \in {g \in outcomes :
                                                           g.error = ""}}) :
                      loaded' = order
                /\ pc' = "new_backup"
                /\ err' = NoError
    /\ cur' = NoBackup
    /\ registered' = FALSE
    /\ idx' = 0
    /\ ext' = "none"
    /\ phase' = "setup"
    /\ creates' = 0
    /\ hist' = <<>>
    /\ ret' = ""
    /\ UNCHANGED <<disk, clock, config, baseIsDir, cloneCompleted,
                   cloneSkipped>>
    /\ UNCHANGED unitVars

\* A faulty variant of the next definition: the directory is made with
\* exist_ok=True.
MkdirRaises_ExistOk(d) == FALSE

\* os.mkdir(directory) raises FileExistsError when the path exists.
MkdirRaises(d) == disk[d].exists

\* BackupManager.new_backup and Backup.__init__(directory, new=True) up to
\* os.mkdir: the directory name and the timestamp are two clock readings.
NewBackup ==
    /\ pc = "new_backup"
    /\ \E t1 \in clock..MaxTime :
       \E t2 \in t1..MaxTime :
          /\ clock' = t2
          /\ IF MkdirRaises(isoformat(t1))
             THEN /\ Raise("BackupError", "new_backup")
                  /\ UNCHANGED <<disk, cur, ret>>
             ELSE /\ disk' = [disk EXCEPT ![isoformat(t1)].exists = TRUE]
                  /\ cur' = [dir |-> isoformat(t1), timestamp |-> t2,
                             sets |-> <<>>]
                  /\ pc' = "save_open"
                  /\ ret' = "register"
                  /\ err' = err
    /\ UNCHANGED <<config, baseIsDir, loaded, registered, idx, ext, phase, creates,
                   hist, cloneCompleted, cloneSkipped>>
    /\ UNCHANGED unitVars

\* What open(state_file, "w") leaves of the file before anything is written.
OpenForWriting(file) == EmptyFile

\* A faulty variant of the next definition: the time in the name of the
\* directory is written in place of the Backup's timestamp.
SavedFile_DirectoryTime(backup) ==
    JsonFile(StateDocument(parse(backup.dir), backup.sets))

\* What the file holds once json.dump has run and the file is closed.
SavedFile(backup) == JsonFile(StateDocument(backup.timestamp, backup.sets))

\* _save_state, first half: open(state_file, "w") truncates the file.
SaveOpen ==
    /\ pc = "save_open"
    /\ disk' = [disk EXCEPT ![cur.dir].file = OpenForWriting(@)]
    /\ pc' = "save_dump"
    /\ UNCHANGED <<clock, config, baseIsDir, ret, loaded, cur, registered, idx,
                   err, ext, phase, creates, hist, cloneCompleted,
                   cloneSkipped>>
    /\ UNCHANGED unitVars

\* _save_state, second half: json.dump and the close of the file.
SaveDump ==
    /\ pc = "save_dump"
    /\ disk' = [disk EXCEPT ![cur.dir].file = SavedFile(cur)]
    /\ pc' = ret
    /\ UNCHANGED <<clock, config, baseIsDir, ret, loaded, cur, registered, idx,
                   err, ext, phase, creates, hist, cloneCompleted,
                   cloneSkipped>>
    /\ UNCHANGED unitVars

\* new_backup: self._backups.append(backup)
Register ==
    /\ pc = "register"
    /\ registered' = TRUE
    /\ pc' = "add"
    /\ UNCHANGED <<disk, clock, config, baseIsDir, ret, loaded, cur, idx, err,
                   ext, phase, creates, hist, cloneCompleted,
                   cloneSkipped>>
    /\ UNCHANGED unitVars

\* A faulty variant of the next definition: the set is put first.
AppendSet_First(sets, set_) == <<set_>> \o sets

\* self._sets.append(...)
AppendSet(sets, set_) == Append(sets, set_)

\* add_local_dir_set / add_remote_dir_set for the next set of the
\* configuration: append the set in state CONFIGURED, then _save_state.
AddSet ==
    /\ pc = "add"
    /\ Len(cur.sets) < Len(config)
    /\ cur' = [cur EXCEPT !.sets =
                  AppendSet(@, [name |-> config[Len(cur.sets) + 1],
                                state |-> CONFIGURED])]
    /\ hist' = Append(hist, NoHist)
    /\ pc' = "save_open"
    /\ ret' = "add"
    /\ UNCHANGED <<disk, clock, config, baseIsDir, loaded, registered, idx, err,
                   ext, phase, creates, cloneCompleted,
                   cloneSkipped>>
    /\ UNCHANGED unitVars

\* backup.create(manager.find_latest_set) is called.
BeginCreate ==
    /\ pc = "add"
    /\ Len(cur.sets) = Len(config)
    /\ pc' = "create"
    /\ idx' = 1
    /\ phase' = "create"
    /\ creates' = 1
    /\ UNCHANGED <<disk, clock, config, baseIsDir, ret, loaded, cur, registered,
                   err, ext, hist, cloneCompleted, cloneSkipped>>
    /\ UNCHANGED unitVars

\* The states create asks the copy source finder for.
CopySourceStates == {CLONED, SYNCHRONIZING, FINISHED}

\* Two faulty variants of the next definition: a set is marked CLONING
\* whatever the finder answered; a found set is marked CLONED before it is
\* cloned.
StateAfterLookup_AlwaysCloning(copy_src) == CLONING

StateAfterLookup_ClonedEarly(copy_src) ==
    IF copy_src # None THEN CLONED ELSE SYNCHRONIZING

\* The state create gives the set once the finder has answered.
StateAfterLookup(copy_src) ==
    IF copy_src # None THEN CLONING ELSE SYNCHRONIZING

\* Where create goes on after that state is saved.
StepAfterLookup(copy_src) == IF copy_src # None THEN "clone" ELSE "sync"

\* A faulty variant of the next definition: the set is marked
\* SYNCHRONIZING at once.
StateAfterClone_Synchronizing == SYNCHRONIZING

\* The state create gives the set when clone has returned.
StateAfterClone == CLONED

\* A faulty variant of the next definition: the set stays SYNCHRONIZING.
StateAfterBackup_Stale == SYNCHRONIZING

\* The state create gives the set when do_backup has returned.
StateAfterBackup == FINISHED

\* backup_set.state = s, with the record of the states the set went through.
SetState(i, s) ==
    /\ cur' = [cur EXCEPT !.sets[i].state = s]
    /\ hist' = [hist EXCEPT ![i].path = Append(@, s)]

\* create, one turn of the loop up to the first _save_state: look the copy
\* source up, set the state to CLONING or SYNCHRONIZING.
CreateLookup ==
    /\ pc = "create"
    /\ idx <= Len(cur.sets)
    /\ LET copy_src == find_latest_set(ManagerBackups, cur.sets[idx].name,
                                       CopySourceStates)
       IN  /\ cur' = [cur EXCEPT !.sets[idx].state = StateAfterLookup(copy_src)]
           /\ hist' = [hist EXCEPT
                         ![idx].path = Append(@, StateAfterLookup(copy_src)),
                         ![idx].asked = TRUE,
                         ![idx].src = copy_src]
           /\ ret' = StepAfterLookup(copy_src)
           /\ cloneSkipped' =
                 IF copy_src = None
                 THEN cloneSkipped \cup {Location(cur.dir, cur.sets[idx].name)}
                 ELSE cloneSkipped
    /\ pc' = "save_open"
    /\ UNCHANGED <<disk, clock, config, baseIsDir, loaded, registered, idx, err,
                   ext, phase, creates, cloneCompleted>>
    /\ UNCHANGED unitVars

\* create: the loop is over, create returns and the program ends.
CreateReturn ==
    /\ pc = "create"
    /\ idx > Len(cur.sets)
    /\ pc' = "done"
    /\ UNCHANGED <<disk, clock, config, baseIsDir, ret, loaded, cur, registered,
                   idx, err, ext, phase, creates, hist, cloneCompleted, cloneSkipped>>
    /\ UNCHANGED unitVars

\* The destination of the set create is working on.
Dst == Location(cur.dir, cur.sets[idx].name)

Tree(loc) == disk[loc.dir].trees[loc.name]

\* backup_set.clone(copy_src): clone_tree(src, dst).  os.listdir(src) and
\* os.makedirs(dst) raise OSError; a failure inside the walk leaves a
\* partial tree and raises BackupError; otherwise the tree is cloned and
\* the state becomes CLONED.
CreateClone ==
    /\ pc = "clone"
    /\ LET src == hist[idx].src
       IN  IF Tree(src) = "absent" \/ Tree(Dst) # "absent"
           THEN /\ Raise("OSError", "clone")
                /\ hist' = [hist EXCEPT ![idx].nclone = @ + 1]
                /\ UNCHANGED <<disk, cur, ret, cloneCompleted>>
           ELSE \/ /\ disk' = [disk EXCEPT
                                 ![Dst.dir].trees[Dst.name] = "partial"]
                   /\ Raise("BackupError", "clone")
                   /\ hist' = [hist EXCEPT ![idx].nclone = @ + 1]
                   /\ UNCHANGED <<cur, ret, cloneCompleted>>
                \/ /\ disk' = [disk EXCEPT
                                 ![Dst.dir].trees[Dst.name] = "cloned"]
                   /\ cloneCompleted' = cloneCompleted \cup {Dst}
                   /\ cur' = [cur EXCEPT !.sets[idx].state = StateAfterClone]
                   /\ hist' = [hist EXCEPT
                                 ![idx].nclone = @ + 1,
                                 ![idx].path = Append(@, StateAfterClone)]
                   /\ pc' = "save_open"
                   /\ ret' = "cloned"
                   /\ err' = err
    /\ UNCHANGED <<clock, config, baseIsDir, loaded, registered, idx, ext, phase,
                   creates, cloneSkipped>>
    /\ UNCHANGED unitVars

\* create: backup_set.state = SYNCHRONIZING after the clone, then
\* _save_state.
CreateCloned ==
    /\ pc = "cloned"
    /\ SetState(idx, SYNCHRONIZING)
    /\ pc' = "save_open"
    /\ ret' = "sync"
    /\ UNCHANGED <<disk, clock, config, baseIsDir, loaded, registered, idx, err,
                   ext, phase, creates, cloneCompleted,
                   cloneSkipped>>
    /\ UNCHANGED unitVars

\* do_backup / execute_command: subprocess.Popen starts the synchronizer.
\* The process runs with its output open ("running_open"), may close its
\* output without exiting ("running_closed"), and exits with 0 ("exit0") or
\* with another code ("exit1"); its exit closes its output.
SyncPopen ==
    /\ pc = "sync"
    /\ ext' = "running_open"
    /\ hist' = [hist EXCEPT ![idx].nsync = @ + 1]
    /\ pc' = "sync_read"
    /\ UNCHANGED <<disk, clock, config, baseIsDir, ret, loaded, cur, registered,
                   idx, err, phase, creates, cloneCompleted,
                   cloneSkipped>>
    /\ UNCHANGED unitVars

\* The synchronizer closes its output and keeps running.
ExtCloseOutput ==
    /\ ext = "running_open"
    /\ ext' = "running_closed"
    /\ UNCHANGED <<disk, clock, config, baseIsDir, pc, ret, loaded, cur,
                   registered, idx, err, phase, creates, hist, cloneCompleted, cloneSkipped>>
    /\ UNCHANGED unitVars

\* What a synchronizer that gave up can leave of the destination tree.
TreesAfterFailedSync(tree) ==
    IF tree = "absent" THEN {"absent", "partial"} ELSE {tree}

\* The synchronizer exits: with 0 the destination is synchronized.
ExtExit ==
    /\ ext \in {"running_open", "running_closed"}
    /\ \/ /\ ext' = "exit0"
          /\ disk' = [disk EXCEPT ![Dst.dir].trees[Dst.name] = "synced"]
       \/ /\ ext' = "exit1"
          /\ \E tree \in TreesAfterFailedSync(Tree(Dst)) :
                disk' = [disk EXCEPT ![Dst.dir].trees[Dst.name] = tree]
    /\ UNCHANGED <<clock, config, baseIsDir, pc, ret, loaded, cur, registered,
                   idx, err, phase, creates, hist, cloneCompleted,
                   cloneSkipped>>
    /\ UNCHANGED unitVars

\* execute_command: the readline loop ends at the end of the output.
SyncReadEof ==
    /\ pc = "sync_read"
    /\ ext # "running_open"
    /\ pc' = "sync_wait"
    /\ UNCHANGED <<disk, clock, config, baseIsDir, ret, loaded, cur, registered,
                   idx, err, ext, phase, creates, hist, cloneCompleted, cloneSkipped>>
    /\ UNCHANGED unitVars

\* execute_command: return_code == 0
ReturnCodeOk(e) == e = "exit0"

\* execute_command: command.wait(timeout=10) returns the return code; with 0
\* do_backup returns and create sets the state to FINISHED, otherwise
\* execute_command raises BackupError.
SyncWaitReturns ==
    /\ pc = "sync_wait"
    /\ ext \in {"exit0", "exit1"}
    /\ ext' = "none"
    /\ IF ReturnCodeOk(ext)
       THEN /\ SetState(idx, StateAfterBackup)
            /\ pc' = "save_open"
            /\ ret' = "next"
            /\ err' = err
       ELSE /\ Raise("BackupError", "sync")
            /\ UNCHANGED <<cur, hist, ret>>
    /\ UNCHANGED <<disk, clock, config, baseIsDir, loaded, registered, idx, phase,
                   creates, cloneCompleted, cloneSkipped>>
    /\ UNCHANGED unitVars

\* execute_command: command.wait(timeout=10) raises TimeoutExpired; the
\* exception leaves the with block through Popen.__exit__.
SyncWaitTimeout ==
    /\ pc = "sync_wait"
    /\ ext = "running_closed"
    /\ pc' = "sync_exit"
    /\ UNCHANGED <<disk, clock, config, baseIsDir, ret, loaded, cur, registered,
                   idx, err, ext, phase, creates, hist, cloneCompleted, cloneSkipped>>
    /\ UNCHANGED unitVars

\* Popen.__exit__ waits for the process without a timeout; then the
\* TimeoutExpired goes on up.
SyncExitWait ==
    /\ pc = "sync_exit"
    /\ ext \in {"exit0", "exit1"}
    /\ ext' = "none"
    /\ Raise("TimeoutExpired", "sync")
    /\ UNCHANGED <<disk, clock, config, baseIsDir, ret, loaded, cur, registered,
                   idx, phase, creates, hist, cloneCompleted,
                   cloneSkipped>>
    /\ UNCHANGED unitVars

\* create: the next turn of the loop.
CreateNext ==
    /\ pc = "next"
    /\ idx' = idx + 1
    /\ pc' = "create"
    /\ UNCHANGED <<disk, clock, config, baseIsDir, ret, loaded, cur, registered,
                   err, ext, phase, creates, hist, cloneCompleted,
                   cloneSkipped>>
    /\ UNCHANGED unitVars

\* The process is killed (or the machine stops): its memory is gone, the
\* disk stays as it is.
Crash ==
    /\ pc \in Running
    /\ pc' = "crashed"
    /\ ret' = ""
    /\ loaded' = <<>>
    /\ cur' = NoBackup
    /\ registered' = FALSE
    /\ idx' = 0
    /\ err' = NoError
    /\ ext' = "none"
    /\ creates' = 0
    /\ hist' = <<>>
    /\ phase' = "none"
    /\ UNCHANGED <<disk, clock, config, baseIsDir, cloneCompleted,
                   cloneSkipped>>
    /\ UNCHANGED unitVars

\* A caller of the Backup class calls create once more on the same Backup,
\* after create returned or raised.
CreateAgain ==
    /\ pc \in {"done", "failed"}
    /\ phase = "create"
    /\ creates < MaxCreates
    /\ creates' = creates + 1
    /\ pc' = "create"
    /\ idx' = 1
    /\ err' = NoError
    /\ UNCHANGED <<disk, clock, config, baseIsDir, ret, loaded, cur, registered,
                   ext, phase, hist, cloneCompleted, cloneSkipped>>
    /\ UNCHANGED unitVars

Step ==
    \/ NewBackup
    \/ SaveOpen
    \/ SaveDump
    \/ Register
    \/ AddSet
    \/ BeginCreate
    \/ CreateLookup
    \/ CreateReturn
    \/ CreateClone
    \/ CreateCloned
    \/ SyncPopen
    \/ SyncReadEof
    \/ SyncWaitReturns
    \/ SyncWaitTimeout
    \/ SyncExitWait
    \/ CreateNext

Environment ==
    \/ ExtCloseOutput
    \/ ExtExit
    \/ Crash

\* The program as run() drives it.
Next == BackupManagerInit \/ Step \/ Environment

Spec == Init /\ [][Next]_vars

\* The classes as any caller may drive them: create called again on the
\* same Backup.
NextApi == Next \/ CreateAgain

SpecApi == Init /\ [][NextApi]_vars

\* ------------------------------------------- the lookups on their own

\* The sets of a Backup of a collection: none, the other set, or the set
\* "a" in some state, alone or after the other set.
LookupSets ==
    {<<>>, <<[name |-> "b", state |-> FINISHED]>>}
    \cup {<<[name |-> "a", state |-> s]>> :
            s \in {CONFIGURED, CLONED, FINISHED}}
    \cup {<<[name |-> "b", state |-> CLONED],
             [name |-> "a", state |-> FINISHED]>>}

\* Collections of Backups, in every order: the i-th is in the i-th
\* directory, with any timestamp.
RECURSIVE LookupBackups(_)
LookupBackups(n) ==
    IF n = 0 THEN {<<>>}
    ELSE {Append(q, [dir |-> IsoTable[n], timestamp |-> t, sets |-> sets]) :
            q \in LookupBackups(n - 1), t \in 0..MaxStamp,
            sets \in LookupSets}

InitLookup ==
    /\ ProgramInit
    /\ config = <<>>
    /\ baseIsDir = TRUE
    /\ fn = ""
    /\ \E n \in 0..MaxBackups :
          arg \in [backups : LookupBackups(n), set_name : {"a"},
                   states : {CopySourceStates, {FINISHED}}]
    /\ out = NoCall
    /\ procs = NoProcs

\* backup.find_set_location(set_name, states) on every Backup of the
\* collection.
FindSetLocationCall ==
    /\ fn = ""
    /\ fn' = "find_set_location"
    /\ out' = [i \in 1..Len(arg.backups) |->
                  find_set_location(arg.backups[i], arg.set_name, arg.states)]
    /\ UNCHANGED <<arg, procs, progVars>>

\* manager.find_latest_set(set_name, states) with the collection as
\* manager._backups.
FindLatestSetCall ==
    /\ fn = ""
    /\ fn' = "find_latest_set"
    /\ out' = find_latest_set(arg.backups, arg.set_name, arg.states)
    /\ UNCHANGED <<arg, procs, progVars>>

NextLookup == FindSetLocationCall \/ FindLatestSetCall

SpecLookup == InitLookup /\ [][NextLookup]_vars

\* ---------------------------------------------- clone_tree on its own

\* A node of a directory tree: a file with its inode, a symbolic link with
\* its target, or a directory with its inode and its entries by name.
File(ino) == [type |-> "file", ino |-> ino, target |-> "", entries |-> <<>>]
Link(target) ==
    [type |-> "link", ino |-> 0, target |-> target, entries |-> <<>>]
Dir(ino, entries) ==
    [type |-> "dir", ino |-> ino, target |-> "", entries |-> entries]

EntryNames == {"x", "y"}

\* The directories with the given inode whose entries are among nodes.
DirsOf(nodes, ino) ==
    {Dir(ino, e) : e \in UNION {[S -> nodes] : S \in SUBSET EntryNames}}

\* Source trees, two levels deep: files, links to the directory they are
\* in (an ancestor of theirs), links to nothing, and directories of files
\* and of links to the directory they are in.
Leaves == {File(1), Link("."), Link("gone")}
SrcTrees == DirsOf(Leaves \cup DirsOf({File(1), Link(".")}, 2), 3)

\* The inode of a directory os.makedirs has made.
NewIno == 9

\* A faulty variant of the next definition: no entry is taken for a link.
islink_Never(node) == FALSE

\* os.path.islink, and os.path.isdir, which follows links.
islink(node) == node.type = "link"
isdir(node) ==
    node.type = "dir" \/ (node.type = "link" /\ node.target = ".")

\* What a path names when links are followed: a link to "." in the
\* directory parent names parent.
Followed(node, parent) == IF node.type = "link" THEN parent ELSE node

\* The operations that can fail: making the entry at a path (os.link,
\* os.symlink, or os.listdir and os.makedirs for a directory) and copying
\* the metadata onto it (copy_all_stat).
ClonePaths ==
    {<<>>} \cup {<<n>> : n \in EntryNames}
    \cup {<<n, k>> : n \in EntryNames, k \in EntryNames}
FailPoints == ClonePaths \X {"make", "stat"}

RECURSIVE FailSets(_)
FailSets(n) ==
    IF n = 0 THEN {{}}
    ELSE FailSets(n - 1)
         \cup {F \cup {f} : F \in FailSets(n - 1), f \in FailPoints}

\* os.listdir gives the names in any order.
ListOrders == {<<"x", "y">>, <<"y", "x">>}

\* A faulty variant of the next definition: the file is copied.
HardLink_Copy(srcnode) == File(NewIno)

\* os.link(srcname, dstname): one more name of the same inode.
HardLink(srcnode) == File(srcnode.ino)

\* A faulty variant of the next definition: the loop ends at the first
\* error.
GoesOn_UntilError(errors) == errors = <<>>

\* The except clauses inside the loop let it go on with the next name.
GoesOn(errors) == TRUE

\* A faulty variant of the next definition: the new errors take the place
\* of those recorded before.
ErrorsExtended_Replaced(errors, more) ==
    IF more = <<>> THEN errors ELSE more

\* errors.extend(err.args[0]) and errors.append(...): the errors of an
\* entry are added at the end of the one list.
ErrorsExtended(errors, more) == errors \o more

\* dst/name now is node.
WithEntry(entries, name, node) ==
    [n \in DOMAIN entries \cup {name} |->
        IF n = name THEN node ELSE entries[n]]

\* A faulty variant of the next definition: the metadata is copied as
\* soon as the directory is made.
DirectoryLog_StatFirst(make, walk, stat) == make \o stat \o walk

\* The operations of one call of clone_tree in their order: os.makedirs,
\* the loop over the names, copy_all_stat(src, dst).
DirectoryLog(make, walk, stat) == make \o walk \o stat

NotMade ==
    [made |-> FALSE, node |-> Dir(0, <<>>), errors |-> <<>>, log |-> <<>>,
     fatal |-> FALSE]

RECURSIVE clone_tree(_, _, _, _)
RECURSIVE CloneEntries(_, _, _, _, _)

\* The body of the for loop for the entry srcnode of the directory parent,
\* at path: a link is made again, a directory is cloned, anything else is
\* linked; OSError and BackupError are caught and recorded, any other
\* exception (fatal) goes on up.
CloneEntry(srcnode, parent, path, fail, order) ==
    IF islink(srcnode)
    THEN IF <<path, "make">> \in fail
         THEN [NotMade EXCEPT !.errors = <<<<path, "make">>>>,
                              !.log = <<<<path, "make">>>>]
         ELSE [made |-> TRUE, node |-> Link(srcnode.target),
               errors |-> IF <<path, "stat">> \in fail
                          THEN <<<<path, "stat">>>> ELSE <<>>,
               log |-> <<<<path, "make">>, <<path, "stat">>>>,
               fatal |-> FALSE]
    ELSE IF isdir(srcnode)
    THEN LET sub == clone_tree(Followed(srcnode, parent), path, fail, order)
         IN  IF sub.raised = "OSError"
             THEN [NotMade EXCEPT !.errors = <<<<path, "make">>>>,
                                  !.log = sub.log]
             ELSE [made |-> sub.made, node |-> sub.node,
                   errors |-> sub.errors, log |-> sub.log,
                   fatal |-> sub.raised = "RecursionError"]
    ELSE IF <<path, "make">> \in fail
         THEN [NotMade EXCEPT !.errors = <<<<path, "make">>>>,
                              !.log = <<<<path, "make">>>>]
         ELSE [made |-> TRUE, node |-> HardLink(srcnode), errors |-> <<>>,
               log |-> <<<<path, "make">>>>, fatal |-> FALSE]

\* for name in names: the entries made, the errors recorded and the
\* operations tried; the loop ends where an exception goes on up.
CloneEntries(src, path, fail, order, names) ==
    IF names = <<>>
    THEN [entries |-> <<>>, errors |-> <<>>, log |-> <<>>, fatal |-> FALSE]
    ELSE LET before == CloneEntries(src, path, fail, order,
                                    SubSeq(names, 1, Len(names) - 1))
             name == names[Len(names)]
             entry == CloneEntry(src.entries[name], src, Append(path, name),
                                 fail, order)
         IN  IF before.fatal \/ ~GoesOn(before.errors) THEN before
             ELSE [entries |-> IF entry.made
                               THEN WithEntry(before.entries, name,
                                              entry.node)
                               ELSE before.entries,
                   errors |-> ErrorsExtended(before.errors, entry.errors),
                   log |-> before.log \o entry.log,
                   fatal |-> entry.fatal]

\* clone_tree(src, dst): what is at dst afterwards, the errors, the
\* exception raised ("" when it returns), and the operations tried, in
\* their order.
clone_tree(src, path, fail, order) ==
    IF Len(path) > MaxDepth
    THEN [raised |-> "RecursionError", made |-> FALSE,
          node |-> Dir(0, <<>>), errors |-> <<>>, log |-> <<>>]
    ELSE IF <<path, "make">> \in fail
    THEN [raised |-> "OSError", made |-> FALSE, node |-> Dir(0, <<>>),
          errors |-> <<>>, log |-> <<<<path, "make">>>>]
    ELSE LET names == SelectSeq(order,
                                LAMBDA n : n \in DOMAIN src.entries)
             walk == CloneEntries(src, path, fail, order, names)
             errors == ErrorsExtended(walk.errors,
                                      IF <<path, "stat">> \in fail
                                      THEN <<<<path, "stat">>>> ELSE <<>>)
         IN  IF walk.fatal
             THEN [raised |-> "RecursionError", made |-> TRUE,
                   node |-> Dir(NewIno, walk.entries),
                   errors |-> walk.errors,
                   log |-> <<<<path, "make">>>> \o walk.log]
             ELSE [raised |-> IF errors # <<>> THEN "BackupError" ELSE "",
                   made |-> TRUE,
                   node |-> Dir(NewIno, walk.entries),
                   errors |-> errors,
                   log |-> DirectoryLog(<<<<path, "make">>>>, walk.log,
                                        <<<<path, "stat">>>>)]

\* The relative paths below a node, itself included, and the node at one.
RECURSIVE PathsOf(_)
PathsOf(node) ==
    {<<>>} \cup
    (IF node.type = "dir"
     THEN UNION {{<<n>> \o q : q \in PathsOf(node.entries[n])} :
                 n \in DOMAIN node.entries}
     ELSE {})

RECURSIVE NodeAt(_, _)
NodeAt(node, path) ==
    IF path = <<>> THEN node
    ELSE NodeAt(node.entries[Head(path)], Tail(path))

\* The operations clone_tree can come to on a source tree: the making of
\* every entry, and the copy of the metadata of every directory and link.
OperationsOn(src) ==
    {f \in FailPoints :
        /\ f[1] \in PathsOf(src)
        /\ f[2] = "stat" => NodeAt(src, f[1]).type # "file"}

\* A source tree, an order of listing, and at most MaxFailures failing
\* operations among those on the tree.
InitClone ==
    /\ ProgramInit
    /\ config = <<>>
    /\ baseIsDir = TRUE
    /\ fn = ""
    /\ \E src \in SrcTrees :
          arg \in [src : {src},
                   fail : {F \in FailSets(MaxFailures) :
                              F \subseteq OperationsOn(src)},
                   order : ListOrders]
    /\ out = NoCall
    /\ procs = NoProcs

CloneTreeCall ==
    /\ fn = ""
    /\ fn' = "clone_tree"
    /\ out' = clone_tree(arg.src, <<>>, arg.fail, arg.order)
    /\ UNCHANGED <<arg, procs, progVars>>

NextClone == CloneTreeCall

SpecClone == InitClone /\ [][NextClone]_vars

\* ------------------------------------------- the states on their own

\* A faulty variant of the next definition: a state is below itself.
__lt___OrEqual(self, other) == self <= other

\* States.__lt__, __le__, __gt__, __ge__ of two members of States: the
\* comparison of their values.
__lt__(self, other) == self < other
__le__(self, other) == self <= other
__gt__(self, other) == self > other
__ge__(self, other) == self >= other

\* Names given to from_string: the names of the states and some others.
NameInputs ==
    {StateName(s) : s \in States} \cup {"", "configured", "DONE", "0"}

InitStates ==
    /\ ProgramInit
    /\ config = <<>>
    /\ baseIsDir = TRUE
    /\ fn = ""
    /\ arg \in [a : States, b : States, c : States, name : NameInputs]
    /\ out = NoCall
    /\ procs = NoProcs

\* The four comparisons of a with b, a < b, b < c and a < c, and
\* from_string(name) and from_string(a.name).
StatesCall ==
    /\ fn = ""
    /\ fn' = "States"
    /\ out' = [lt |-> __lt__(arg.a, arg.b), le |-> __le__(arg.a, arg.b),
               gt |-> __gt__(arg.a, arg.b), ge |-> __ge__(arg.a, arg.b),
               lt_bc |-> __lt__(arg.b, arg.c),
               lt_ac |-> __lt__(arg.a, arg.c),
               raised |-> IF from_string_raises(arg.name)
                          THEN "ValueError" ELSE "",
               state |-> IF from_string_raises(arg.name)
                         THEN CONFIGURED ELSE from_string(arg.name),
               back_raised |-> from_string_raises(StateName(arg.a)),
               back |-> from_string(StateName(arg.a))]
    /\ UNCHANGED <<arg, procs, progVars>>

NextStates == StatesCall

SpecStates == InitStates /\ [][NextStates]_vars

\* ------------------------------- Backup(directory) from two processes

\* A backup directory that was there before the processes started.
OldDir == [exists |-> TRUE, file |-> JsonFile(StateDocument(0, <<>>)),
           trees |-> [n \in AllNames |-> "absent"]]

\* Each process is given the directory of its Backup; the two names are
\* equal when new_backup read the clock within the same second in both.
\* A directory can only be there when its parent is.
InitNew ==
    /\ disk \in [DirNames -> {NoDir, OldDir}]
    /\ baseIsDir \in BOOLEAN
    /\ ~baseIsDir => disk = [d \in DirNames |-> NoDir]
    /\ clock = 0
    /\ config = <<>>
    /\ pc = "idle"
    /\ ret = ""
    /\ loaded = <<>>
    /\ cur = NoBackup
    /\ registered = FALSE
    /\ idx = 0
    /\ err = NoError
    /\ ext = "none"
    /\ phase = "none"
    /\ creates = 0
    /\ hist = <<>>
    /\ cloneCompleted = {}
    /\ cloneSkipped = {}
    /\ fn = "Backup"
    /\ arg \in [dir : [Procs -> DirNames]]
    /\ out = NoCall
    /\ procs = [p \in Procs |-> [NoProc EXCEPT !.pc = "timestamp"]]

\* The Backup object under construction in process p.
BackupOf(p) ==
    [dir |-> arg.dir[p], timestamp |-> procs[p].timestamp, sets |-> <<>>]

\* except OSError: raise BackupError("Backup directory '{0}' already
\* exists"), entered from any call of the try block that raised an OSError.
ExceptOSError(p, call, errno) ==
    [procs EXCEPT ![p].pc = "failed", ![p].raised = "BackupError",
                  ![p].message = "already exists", ![p].call = call,
                  ![p].errno = errno]

ProcessStep(p, to) == [procs EXCEPT ![p].pc = to]

\* self.timestamp = datetime.now().replace(microsecond=0)
BackupTimestamp(p) ==
    /\ procs[p].pc = "timestamp"
    /\ \E t \in clock..MaxTime :
          /\ clock' = t
          /\ procs' = [procs EXCEPT ![p].pc = "mkdir", ![p].timestamp = t]
    /\ UNCHANGED <<disk, config, baseIsDir, pc, ret, loaded, cur,
                   registered, idx, err, ext, phase, creates, hist,
                   cloneCompleted, cloneSkipped, fn, arg, out>>

\* os.mkdir(directory): FileNotFoundError when the parent is missing,
\* FileExistsError when the path exists, else the directory is made.
BackupMkdir(p) ==
    /\ procs[p].pc = "mkdir"
    /\ IF ~baseIsDir
       THEN /\ procs' = ExceptOSError(p, "mkdir", "ENOENT")
            /\ disk' = disk
       ELSE IF MkdirRaises(arg.dir[p])
       THEN /\ procs' = ExceptOSError(p, "mkdir", "EEXIST")
            /\ disk' = disk
       ELSE /\ procs' = [procs EXCEPT ![p].pc = "save_open",
                                      ![p].made = TRUE]
            /\ disk' = [disk EXCEPT ![arg.dir[p]].exists = TRUE]
    /\ UNCHANGED <<clock, config, baseIsDir, pc, ret, loaded, cur,
                   registered, idx, err, ext, phase, creates, hist,
                   cloneCompleted, cloneSkipped, fn, arg, out>>

\* _save_state, first half: open(state_file, "w") truncates the file, or
\* raises an OSError and leaves it.
BackupSaveOpen(p) ==
    /\ procs[p].pc = "save_open"
    /\ \E fails \in BOOLEAN :
          IF fails
          THEN /\ procs' = ExceptOSError(p, "open", "EACCES")
               /\ disk' = disk
          ELSE /\ procs' = ProcessStep(p, "save_dump")
               /\ disk' = [disk EXCEPT
                              ![arg.dir[p]].file = OpenForWriting(@)]
    /\ UNCHANGED <<clock, config, baseIsDir, pc, ret, loaded, cur,
                   registered, idx, err, ext, phase, creates, hist,
                   cloneCompleted, cloneSkipped, fn, arg, out>>

\* _save_state, second half: json.dump and the close of the file, or an
\* OSError of the write that leaves the file as open made it.
BackupSaveDump(p) ==
    /\ procs[p].pc = "save_dump"
    /\ \E fails \in BOOLEAN :
          IF fails
          THEN /\ procs' = ExceptOSError(p, "dump", "ENOSPC")
               /\ disk' = disk
          ELSE /\ procs' = ProcessStep(p, "logging")
               /\ disk' = [disk EXCEPT
                              ![arg.dir[p]].file = SavedFile(BackupOf(p))]
    /\ UNCHANGED <<clock, config, baseIsDir, pc, ret, loaded, cur,
                   registered, idx, err, ext, phase, creates, hist,
                   cloneCompleted, cloneSkipped, fn, arg, out>>

\* logging.basicConfig(filename=...) opens backup.log, or raises an
\* OSError; the constructor returns after the two logging.info calls.
BackupLogging(p) ==
    /\ procs[p].pc = "logging"
    /\ \E fails \in BOOLEAN :
          IF fails
          THEN procs' = ExceptOSError(p, "basicConfig", "EACCES")
          ELSE procs' = ProcessStep(p, "done")
    /\ UNCHANGED <<disk, clock, config, baseIsDir, pc, ret, loaded, cur,
                   registered, idx, err, ext, phase, creates, hist,
                   cloneCompleted, cloneSkipped, fn, arg, out>>

NextNew ==
    \E p \in Procs :
       \/ BackupTimestamp(p)
       \/ BackupMkdir(p)
       \/ BackupSaveOpen(p)
       \/ BackupSaveDump(p)
       \/ BackupLogging(p)

SpecNew == InitNew /\ [][NextNew]_vars

\* The scheduler runs the process whenever it can take a step; nothing
\* obliges the external synchronizer to close its output or to exit, and
\* nothing obliges anyone to start the program again.
FairSpec == Spec /\ WF_vars(Step)

\* ----------------------------------------------------------------- claims

\* What the state file of directory d holds for the set named n.
PersistedSets(d) == ValueOf(DictGet(ValueOf(StateFile(d).doc), "sets"))

HasPersisted(d, n) ==
    /\ StateFile(d).kind = "json"
    /\ DictHas(PersistedSets(d), n)

Persisted(d, n) == ValueOf(DictGet(PersistedSets(d), n))

\* The states a set has been given, as a set.
Visited(path) == {path[k] : k \in 1..Len(path)}

\* C1: over any sequence of addSet and create calls on a Backup, a repeated
\* create included, every change of a set's state is one of the five
\* forward transitions: the states a set went through never step back and
\* never leave FINISHED.
C1_ForwardTransitions ==
    \A i \in 1..Len(hist) :
        \A k \in 1..(Len(hist[i].path) - 1) :
            <<hist[i].path[k], hist[i].path[k + 1]>> \in
                {<<CONFIGURED, CLONING>>, <<CLONING, CLONED>>,
                 <<CLONED, SYNCHRONIZING>>, <<CONFIGURED, SYNCHRONIZING>>,
                 <<SYNCHRONIZING, FINISHED>>}

\* C2: at every point of Backup.create, a crash in the middle of a persist
\* call included, the state file is a complete document, and between two
\* persist calls it holds the Backup's mapping; it is never empty.
C2_StateFileNeverTorn ==
    phase = "create" =>
        /\ StateFile(cur.dir).kind = "json"
        /\ pc \notin {"save_open", "save_dump"} =>
              StateFile(cur.dir) = SavedFile(cur)

C4_CloneIffSourceFound ==
    \A i \in 1..Len(hist) :
        /\ ~hist[i].asked =>
              hist[i].path = <<CONFIGURED>> /\ hist[i].nclone = 0
        /\ (hist[i].asked /\ hist[i].src # None) =>
              /\ Len(hist[i].path) >= 2
              /\ hist[i].path[2] = CLONING
              /\ CLONED \in Visited(hist[i].path) => hist[i].nclone = 1
        /\ (hist[i].asked /\ hist[i].src = None) =>
              /\ Len(hist[i].path) >= 2
              /\ hist[i].path[2] = SYNCHRONIZING
              /\ Visited(hist[i].path) \cap {CLONING, CLONED} = {}
              /\ hist[i].nclone = 0
              /\ ~(pc = "failed" /\ idx = i /\ hist[i].nsync = 0)

\* C4, the case: in one create the first set had a clone source and was
\* cloned, the second had none and is synchronizing.
C4_Witness ==
    /\ Len(hist) = 2
    /\ hist[1].src # None /\ CLONED \in Visited(hist[1].path)
    /\ hist[2].asked /\ hist[2].src = None
    /\ cur.sets[2].state = SYNCHRONIZING

\* C5: when the clone or the synchronization of set i fails, create ends
\* with the error at once: set i is persisted as CLONING or SYNCHRONIZING,
\* every later set is persisted as CONFIGURED, nothing was started for a
\* later set, and the failed step was made once.
C5_FailureStopsCreate ==
    err.at \in {"clone", "sync"} =>
        /\ pc = "failed"
        /\ HasPersisted(cur.dir, cur.sets[idx].name)
        /\ Persisted(cur.dir, cur.sets[idx].name) =
              (IF err.at = "clone" THEN "CLONING" ELSE "SYNCHRONIZING")
        /\ cur.sets[idx].state =
              (IF err.at = "clone" THEN CLONING ELSE SYNCHRONIZING)
        /\ hist[idx].nclone <= 1
        /\ hist[idx].nsync = (IF err.at = "clone" THEN 0 ELSE 1)
        /\ \A j \in (idx + 1)..Len(cur.sets) :
              /\ HasPersisted(cur.dir, cur.sets[j].name)
              /\ Persisted(cur.dir, cur.sets[j].name) = "CONFIGURED"
              /\ ~hist[j].asked
              /\ hist[j].nclone = 0
              /\ hist[j].nsync = 0

\* C6: in every state of create at most one set is in CLONING, CLONED or
\* SYNCHRONIZING; every set before it is FINISHED and every set after it
\* is CONFIGURED.
C6_OneSetAtATime ==
    \A i, j \in 1..Len(cur.sets) :
        (i < j /\ cur.sets[j].state # CONFIGURED) =>
            cur.sets[i].state = FINISHED

\* C6, the case: the first set is finished, the second is being cloned.
C6_Witness ==
    /\ Len(cur.sets) = 2
    /\ cur.sets[1].state = FINISHED
    /\ cur.sets[2].state = CLONING

\* C7: a set is FINISHED only if the synchronizer exited with 0; a non-zero
\* exit code and an expiry of the bounded wait both make synchronize fail
\* with BackupError, and the persisted state stays SYNCHRONIZING.
C7_SyncFailureIsBackupError ==
    /\ \A i \in 1..Len(cur.sets) :
          cur.sets[i].state = FINISHED =>
              Tree(Location(cur.dir, cur.sets[i].name)) = "synced"
    /\ err.at = "sync" =>
          /\ err.kind = "BackupError"
          /\ cur.sets[idx].state = SYNCHRONIZING
          /\ StateFile(cur.dir) = SavedFile(cur)

\* C8: every call of synchronize returns in the end, with success or with
\* failure, whatever the external process does.
C8_SyncReturns ==
    (pc = "sync_read") ~> (pc \notin {"sync_read", "sync_wait", "sync_exit"})

\* C9: for any set names, the state file's own keys included, saving a
\* Backup and opening its directory gives the timestamp and the name to
\* state mapping of the Backup back.
C9_RoundTrip ==
    (cur # NoBackup /\ StateFile(cur.dir) = SavedFile(cur)) =>
        /\ OpenError(cur.dir) = ""
        /\ OpenBackup(cur.dir, clock).timestamp = cur.timestamp
        /\ SetsDict(OpenBackup(cur.dir, clock).sets) = SetsDict(cur.sets)

\* C10: opening a backup directory twice with no write in between gives the
\* same timestamp and the same sequence of (name, state) pairs, and opening
\* changes no state file: the Backup a run loads from a directory equals
\* the Backup the run before it loaded from that directory.
C10_OpenIsIdempotent ==
    [][(pc \in Stopped /\ pc' = "new_backup") =>
          /\ disk' = disk
          /\ \A i \in 1..Len(loaded), j \in 1..Len(loaded') :
                loaded[i].dir = loaded'[j].dir => loaded'[j] = loaded[i]]_vars

\* C10, the case: two generations are loaded, so the older one was already
\* loaded by the run that made the newer one.
C10_Witness ==
    /\ pc = "new_backup"
    /\ Len(loaded) = 2
    /\ \E i \in 1..2 : loaded[i].timestamp < clock

\* C11: Backup.open of a directory returns the Backup or fails with
\* BackupError, whatever the directory holds: it is missing, has no state
\* file, has a state file that is no JSON document, lacks a field, has a
\* timestamp that is no date or a state name that is no state.  No other
\* exception leaves it.
C11_OpenFailsWithBackupError ==
    \A d \in DirNames : OpenOutcome(d, clock).error \in {"", "BackupError"}

\* The directories Backup.open returns a Backup for.
ValidDirs == {d \in DirNames : disk[d].exists /\ OpenError(d) = ""}

\* C12: the construction of a BackupManager succeeds whatever the
\* subdirectories hold, and the Backups it has loaded are those of the
\* subdirectories with a valid state file.
C12_ManagerLoadsValidDirs ==
    /\ ~(pc = "failed" /\ err.at = "manager")
    /\ pc = "new_backup" =>
          {loaded[i].dir : i \in 1..Len(loaded)} = ValidDirs

\* C14: a backup directory that exists holds a state file, in every state,
\* a crash inside the construction of a new Backup included.
C14_DirectoryHasStateFile ==
    \A d \in DirNames : disk[d].exists => StateFile(d).kind # "none"

\* C16: no two sets of a Backup have the same name, so the state file has
\* one entry for each set.
C16_SetNamesUnique ==
    /\ \A i, j \in 1..Len(cur.sets) :
          i # j => cur.sets[i].name # cur.sets[j].name
    /\ (cur # NoBackup /\ StateFile(cur.dir) = SavedFile(cur)) =>
          Len(PersistedSets(cur.dir)) = Len(cur.sets)

\* C13: making a new Backup at a path that exists fails with BackupError
\* and changes nothing on disk; a new Backup goes on to write its state
\* file only at a path that did not exist.
C13_NewAtExistingPathFails ==
    [][(pc = "new_backup" /\ pc' \in {"failed", "save_open"}) =>
          IF pc' = "failed"
          THEN /\ disk' = disk
               /\ err' = [kind |-> "BackupError", at |-> "new_backup"]
               /\ cur' = NoBackup
          ELSE /\ ~disk[cur'.dir].exists
               /\ disk'[cur'.dir].exists
               /\ \A d \in DirNames \ {cur'.dir} : disk'[d] = disk[d]]_vars

\* C13, the case: new_backup has failed at a path that holds a Backup with
\* a state file.
C13_Witness ==
    /\ pc = "failed"
    /\ err = [kind |-> "BackupError", at |-> "new_backup"]
    /\ \E d \in DirNames : disk[d].exists /\ StateFile(d).kind = "json"

\* C15: when addSet has returned, the Backup holds the sets added so far in
\* the order they were added, each in CONFIGURED, and the state file holds
\* the Backup's timestamp and maps every one of their names to CONFIGURED.
C15_AddSetAppendsConfigured ==
    (phase = "setup" /\ pc = "add") =>
        /\ Len(cur.sets) <= Len(config)
        /\ \A i \in 1..Len(cur.sets) :
              /\ cur.sets[i] = [name |-> config[i], state |-> CONFIGURED]
              /\ HasPersisted(cur.dir, config[i])
              /\ Persisted(cur.dir, config[i]) = "CONFIGURED"
        /\ \A i \in 1..Len(PersistedSets(cur.dir)) :
              \E j \in 1..Len(cur.sets) :
                  PersistedSets(cur.dir)[i][1] = cur.sets[j].name
        /\ StateFile(cur.dir) = SavedFile(cur)

\* C15, the case: two sets have been added.
C15_Witness ==
    /\ phase = "setup"
    /\ pc = "add"
    /\ Len(cur.sets) = 2
    /\ cur.sets[1].name # cur.sets[2].name

\* C17: find_set_location(set_name, states) returns the set's directory
\* under the backup directory if and only if the Backup has a set of that
\* name whose state is one of states, and None otherwise; the Backup is
\* left as it was.
C17_FindSetLocation ==
    fn = "find_set_location" =>
        \A i \in 1..Len(arg.backups) :
            LET b == arg.backups[i]
                owns == \E k \in 1..Len(b.sets) :
                           /\ b.sets[k].name = arg.set_name
                           /\ b.sets[k].state \in arg.states
            IN  /\ owns => out[i] = [dir |-> b.dir, name |-> arg.set_name]
                /\ ~owns => out[i] = None

\* C17, the case: of three Backups one has the set in a state asked for, one
\* has it in another state and one has only the other set.
C17_Witness ==
    /\ fn = "find_set_location"
    /\ Len(arg.backups) = 3
    /\ arg.states = {FINISHED}
    /\ out[1] = None /\ arg.backups[1].sets # <<>>
    /\ arg.backups[1].sets[1] = [name |-> "a", state |-> CLONED]
    /\ out[2] # None
    /\ out[3] = None /\ arg.backups[3].sets # <<>>
    /\ arg.backups[3].sets[1].name = "b"

\* The Backups of the collection that have the set in a state asked for.
Qualifying ==
    {i \in 1..Len(arg.backups) :
        \E k \in 1..Len(arg.backups[i].sets) :
            /\ arg.backups[i].sets[k].name = arg.set_name
            /\ arg.backups[i].sets[k].state \in arg.states}

\* C18: find_latest_set returns None if and only if no Backup of the
\* collection has the set in a state asked for; otherwise it returns the
\* set's location in such a Backup with the greatest timestamp among them,
\* in whatever order the collection is.
C18_FindLatestSet ==
    fn = "find_latest_set" =>
        /\ out = None <=> Qualifying = {}
        /\ Qualifying # {} =>
              \E i \in Qualifying :
                  /\ out = [dir |-> arg.backups[i].dir,
                            name |-> arg.set_name]
                  /\ \A j \in Qualifying :
                        arg.backups[j].timestamp <= arg.backups[i].timestamp

\* C18, the case: the set is CLONED in the latest Backup, absent from the
\* one before and FINISHED in the earliest, the latest coming first in the
\* collection; the latest is returned.
C18_Witness ==
    /\ fn = "find_latest_set"
    /\ Len(arg.backups) = 3
    /\ arg.states = CopySourceStates
    /\ arg.backups[1].timestamp = 2
    /\ arg.backups[1].sets = <<[name |-> "a", state |-> CLONED]>>
    /\ arg.backups[2].timestamp = 1
    /\ arg.backups[2].sets = <<>>
    /\ arg.backups[3].timestamp = 0
    /\ arg.backups[3].sets = <<[name |-> "a", state |-> FINISHED]>>
    /\ out = [dir |-> arg.backups[1].dir, name |-> "a"]


\* C19: when clone_tree returns without an error, the destination has
\* exactly the relative paths of the source; every file is a hard link to
\* its counterpart (the same inode), every directory is a new one (another
\* inode than its counterpart), and every symbolic link has the target of
\* its counterpart. The source is only read.
C19_CloneMirrorsSource ==
    (fn = "clone_tree" /\ out.raised = "") =>
        /\ out.made
        /\ PathsOf(out.node) = PathsOf(arg.src)
        /\ \A p \in PathsOf(arg.src) :
              LET s == NodeAt(arg.src, p)
                  d == NodeAt(out.node, p)
              IN  /\ d.type = s.type
                  /\ s.type = "file" => d.ino = s.ino
                  /\ s.type = "dir" => d.ino # s.ino
                  /\ s.type = "link" => d.target = s.target

\* A tree with a dangling link and a directory holding a file and a link,
\* all cloned without an error.
C19_Witness ==
    /\ fn = "clone_tree"
    /\ out.raised = ""
    /\ arg.src = Dir(3, [n \in EntryNames |->
                    IF n = "x" THEN Link("gone")
                    ELSE Dir(2, [k \in EntryNames |->
                             IF k = "x" THEN File(1) ELSE Link(".")])])
    /\ NodeAt(out.node, <<"x">>) = Link("gone")
    /\ NodeAt(out.node, <<"y", "x">>) = File(1)
    /\ NodeAt(out.node, <<"y", "y">>) = Link(".")
    /\ NodeAt(out.node, <<"y">>).ino = NewIno

\* The entries of the source whose making fails, and the failures that
\* happen: the operation is reached (nothing above the entry failed to be
\* made, and metadata is copied only onto an entry that was made) and
\* exists for the entry (only links and directories get metadata copied).
FailedEntries ==
    {p \in PathsOf(arg.src) : <<p, "make">> \in arg.fail}
BelowFailed(p) ==
    \E k \in 0..(Len(p) - 1) : SubSeq(p, 1, k) \in FailedEntries
Failures ==
    {f \in arg.fail :
        /\ f[1] \in PathsOf(arg.src)
        /\ ~BelowFailed(f[1])
        /\ f[2] = "stat" => /\ NodeAt(arg.src, f[1]).type # "file"
                            /\ f[1] \notin FailedEntries}

\* C20: a failure on an entry does not stop the walk. Whatever set of
\* entries fails, the destination root is made, every entry that is not in
\* the set and not below one of it is made (and no other), and then
\* BackupError is raised when something failed; with one failure the error
\* list has exactly one element, which names the failed path.
C20_WalkContinuesPastFailures ==
    (fn = "clone_tree" /\ <<<<>>, "make">> \notin arg.fail) =>
        /\ out.made
        /\ PathsOf(out.node)
             = {p \in PathsOf(arg.src) :
                   p \notin FailedEntries /\ ~BelowFailed(p)}
        /\ (out.raised = "BackupError") = (Failures # {})
        /\ out.raised \in {"", "BackupError"}
        /\ \A f \in Failures :
              Failures = {f} => out.errors = <<f>>

\* Of two files in the root the one listed first cannot be linked: the
\* other one is linked all the same, and the error list names the first.
C20_Witness ==
    /\ fn = "clone_tree"
    /\ arg.src = Dir(3, [n \in EntryNames |-> File(1)])
    /\ arg.order = <<"x", "y">>
    /\ arg.fail = {<<<<"x">>, "make">>}
    /\ out.raised = "BackupError"
    /\ out.errors = <<<<<<"x">>, "make">>>>
    /\ out.node = Dir(NewIno, [n \in {"y"} |-> File(1)])

\* C21: clone_tree, once it has made its destination, fails if and only if
\* an operation on an entry or a copy of a directory's metadata failed
\* somewhere in the tree, and then with BackupError; its error list is
\* flat and holds one element for each failure, at whatever depth: none is
\* dropped, none comes twice, none is a list of its own.
C21_ErrorListIsFlatAndComplete ==
    (fn = "clone_tree" /\ <<<<>>, "make">> \notin arg.fail) =>
        /\ (out.raised # "") = (Failures # {})
        /\ out.raised \in {"", "BackupError"}
        /\ Len(out.errors) = Cardinality(Failures)
        /\ \A i \in 1..Len(out.errors) : out.errors[i] \in Failures
        /\ \A f \in Failures :
              \E i \in 1..Len(out.errors) : out.errors[i] = f

\* A file two levels down cannot be linked and the metadata of a link in
\* the root cannot be copied: the list holds both, in the order of the
\* walk.
C21_Witness ==
    /\ fn = "clone_tree"
    /\ arg.order = <<"x", "y">>
    /\ arg.src.entries = [n \in EntryNames |->
            IF n = "x" THEN Dir(2, [k \in {"x"} |-> File(1)])
            ELSE Link(".")]
    /\ arg.fail = {<<<<"x", "x">>, "make">>, <<<<"y">>, "stat">>}
    /\ out.raised = "BackupError"
    /\ out.errors = <<<<<<"x", "x">>, "make">>, <<<<"y">>, "stat">>>>

\* C22: every fatal condition of a run (a directory-state error, a failed
\* clone, a clone source that cannot be listed or a clone destination that
\* cannot be made, a synchronizer that exits with another code than 0 or
\* does not exit in time) reaches the handler of run(), which catches
\* BackupError, logs it and exits with 1: a run that has failed has failed
\* with BackupError.
C22_FatalReachesHandler ==
    pc = "failed" => err.kind = "BackupError"

\* No Backup the manager loaded has a set of a configured name in a state
\* create clones from.
NoUsableInstance ==
    \A k \in 1..Len(config) :
        find_latest_set(loaded, config[k], CopySourceStates) = None

\* C23: when no loaded generation holds a usable instance of a configured
\* set, create takes every set, however many are configured, through
\* CONFIGURED, SYNCHRONIZING, FINISHED and never through CLONING or CLONED;
\* it fails only where a synchronization fails, and when it has returned
\* the state file maps every set name to FINISHED.
C23_NoSourceSkipsClone ==
    (phase = "create" /\ NoUsableInstance) =>
        /\ \A i \in 1..Len(hist) :
              \E k \in 1..3 :
                  hist[i].path =
                      SubSeq(<<CONFIGURED, SYNCHRONIZING, FINISHED>>, 1, k)
        /\ pc = "failed" => err.at = "sync"
        /\ pc = "done" =>
              \A i \in 1..Len(cur.sets) :
                  /\ hist[i].path = <<CONFIGURED, SYNCHRONIZING, FINISHED>>
                  /\ HasPersisted(cur.dir, cur.sets[i].name)
                  /\ Persisted(cur.dir, cur.sets[i].name) = "FINISHED"

\* The generations other than the one being made whose state file holds
\* the set named n as FINISHED.
EarlierFinished(n) ==
    {d \in DirNames \ {cur.dir} :
        HasPersisted(d, n) /\ Persisted(d, n) = "FINISHED"}

\* The set directories of the loaded generations that qualify as a clone
\* source for the name n and are the latest to do so.
LatestQualifying(n) ==
    LET cand == {j \in 1..Len(loaded) :
                    find_set_location(loaded[j], n, CopySourceStates) # None}
    IN  {Location(loaded[j].dir, n) :
            j \in {k \in cand : \A l \in cand :
                       loaded[l].timestamp <= loaded[k].timestamp}}

FiveStates == <<CONFIGURED, CLONING, CLONED, SYNCHRONIZING, FINISHED>>

C25_MissingBaseFails ==
    ~baseIsDir =>
        /\ pc \in {"idle", "failed"}
        /\ pc = "failed" => err = [kind |-> "BackupError", at |-> "base"]
        /\ loaded = <<>>
        /\ cur = NoBackup
        /\ \A d \in DirNames : disk[d] = NoDir

\* C25, the case: the program was started with a base directory that does
\* not exist.
C25_Witness ==
    /\ ~baseIsDir
    /\ pc = "failed"
    /\ err.at = "base"

\* C26: the five states are ordered by their ordinals: a < b exactly when
\* the ordinal of a is below that of b; <=, > and >= agree with it; of
\* a < b, a = b, a > b exactly one holds; a < b and b < c give a < c.
\* from_string of the name of a state gives that state, for each of the
\* five, and from_string of any other name raises ValueError.
C26_StatesOrderedAndParsed ==
    fn = "States" =>
        /\ out.lt = (arg.a < arg.b)
        /\ out.le = (out.lt \/ arg.a = arg.b)
        /\ out.gt = ~out.le
        /\ out.ge = ~out.lt
        /\ (out.lt /\ out.lt_bc) => out.lt_ac
        /\ \/ out.lt /\ arg.a # arg.b /\ ~out.gt
           \/ ~out.lt /\ arg.a = arg.b /\ ~out.gt
           \/ ~out.lt /\ arg.a # arg.b /\ out.gt
        /\ ~out.back_raised /\ out.back = arg.a
        /\ (\E s \in States : StateName(s) = arg.name) =>
              out.raised = "" /\ StateName(out.state) = arg.name
        /\ (\A s \in States : StateName(s) # arg.name) =>
              out.raised = "ValueError"

\* C26, the case: CLONED is below SYNCHRONIZING and that below FINISHED;
\* the name of CLONED is parsed back, a name in small letters is refused.
C26_Witness ==
    /\ fn = "States"
    /\ arg.a = CLONED /\ arg.b = SYNCHRONIZING /\ arg.c = FINISHED
    /\ out.lt /\ out.lt_bc /\ out.lt_ac /\ ~out.ge
    /\ out.back = CLONED
    /\ arg.name = "configured"
    /\ out.raised = "ValueError"

\* The mapping of the Backup in memory: one pair for each set.
MemoryMapping(backup) ==
    [i \in 1..Len(backup.sets) |->
        <<backup.sets[i].name, JStr(StateName(backup.sets[i].state))>>]

\* C27: the contents written to the state file during create are the
\* Backup's mappings after each transition, one write for each transition
\* and in their order: when a set changes state the mapping before the
\* change has been written, the mapping after it is written next, and the
\* two writes differ in the state of exactly one set; and whenever create
\* or addSet has returned the state file holds the mapping in memory.
C27_WritesFollowTransitions ==
    /\ []((pc = "done" \/ (pc = "add" /\ phase = "setup")) =>
            /\ StateFile(cur.dir).kind = "json"
            /\ PersistedSets(cur.dir) = MemoryMapping(cur))
    /\ [][(phase = "create" /\ cur' # NoBackup /\ cur'.sets # cur.sets) =>
            /\ StateFile(cur.dir) = SavedFile(cur)
            /\ pc' = "save_open"
            /\ Cardinality({i \in 1..Len(SetsDict(cur.sets)) :
                               SetsDict(cur'.sets)[i] # SetsDict(cur.sets)[i]})
                  = 1]_vars

\* C28: the clone source create uses for a set is never a path inside the
\* Backup being made, the set's own destination least of all, whatever
\* the list of configured sets, although find_latest_set also scans the
\* Backup new_backup has just appended.
C28_CloneSourceOutsideNewBackup ==
    \A i \in 1..Len(hist) :
        hist[i].src # None =>
            /\ hist[i].src.dir # cur.dir
            /\ hist[i].src # Location(cur.dir, cur.sets[i].name)

\* C29: while a run goes on, the Backups the manager loaded at its start
\* stay as they were loaded, their directories (state file and trees)
\* stay as they are, and what the run writes on disk is in the directory
\* of the Backup it has made.
C29_LoadedBackupsUntouched ==
    [][(pc \in Running /\ pc' # "crashed") =>
          /\ loaded' = loaded
          /\ \A i \in 1..Len(loaded) :
                disk'[loaded[i].dir] = disk[loaded[i].dir]
          /\ \A d \in DirNames \ {cur'.dir} : disk'[d] = disk[d]]_vars

\* C29, the case: a run that loaded a generation has cloned a set from it,
\* synchronized the set and returned.
C29_Witness ==
    /\ pc = "done"
    /\ Len(loaded) = 1
    /\ Len(hist) = 1
    /\ hist[1].src = Location(loaded[1].dir, cur.sets[1].name)
    /\ Tree(Location(cur.dir, cur.sets[1].name)) = "synced"
    /\ cur.sets[1].state = FINISHED

\* C30: the timestamp of a Backup does not change once the Backup is
\* constructed, and every state file written for the Backup by its
\* construction, by addSet and by create carries that one timestamp, a
\* time in whole seconds.
C30_TimestampFixed ==
    /\ []((cur # NoBackup /\ StateFile(cur.dir).kind = "json") =>
            DictGet(ValueOf(StateFile(cur.dir).doc), "timestamp")
                = JStr(isoformat(cur.timestamp)))
    /\ [][(cur # NoBackup /\ cur' # NoBackup) =>
            cur'.timestamp = cur.timestamp]_vars

\* C30, the case: a Backup whose timestamp was read a second after the
\* name of its directory has had a set added and create has returned.
C30_Witness ==
    /\ pc = "done"
    /\ Len(cur.sets) >= 1
    /\ cur.dir = isoformat(0)
    /\ cur.timestamp = 1
    /\ StateFile(cur.dir) = SavedFile(cur)

\* C31: the manager's list of Backups only grows while a run goes on:
\* no step removes or moves a Backup of the list or changes a loaded one;
\* the list gets longer only when new_backup appends the one Backup it has
\* made; a new_backup that fails adds nothing; and the step of create that
\* calls find_latest_set (and through it find_set_location) leaves the
\* list as long as it was.
C31_BackupsOnlyGrow ==
    [][(pc \in Running /\ pc' # "crashed") =>
          /\ Len(ManagerBackups') >= Len(ManagerBackups)
          /\ \A i \in 1..Len(ManagerBackups) :
                ManagerBackups'[i].dir = ManagerBackups[i].dir
          /\ \A i \in 1..Len(loaded) : ManagerBackups'[i] = loaded[i]
          /\ Len(ManagerBackups') > Len(ManagerBackups) =>
                /\ pc = "register"
                /\ ManagerBackups' = Append(ManagerBackups, cur)
                /\ cur' = cur
          /\ (pc = "new_backup" /\ pc' = "failed") =>
                ManagerBackups' = ManagerBackups
          /\ pc = "create" =>
                Len(ManagerBackups') = Len(ManagerBackups)]_vars

\* C31, the case: a run that loaded a generation has appended the Backup
\* it made and has looked a clone source up.
C31_Witness ==
    /\ registered
    /\ Len(loaded) = 1
    /\ Len(ManagerBackups) = 2
    /\ Len(hist) = 1
    /\ hist[1].asked

\* p is a proper prefix of q: q is below p.
Below(q, p) == Len(p) < Len(q) /\ SubSeq(q, 1, Len(p)) = p

\* C32: in clone_tree the metadata of a directory is copied onto its
\* destination once, after the directory was made and after every
\* operation on an entry below it, at every level of the tree; when that
\* copy fails the failure is recorded as one error, and the destination
\* holds what it holds when the copy does not fail.
C32_DirectoryMetadataLast ==
    (fn = "clone_tree" /\ <<<<>>, "make">> \notin arg.fail) =>
        /\ \A p \in PathsOf(out.node) :
              NodeAt(out.node, p).type = "dir" =>
                  /\ \E j \in 1..Len(out.log) :
                        /\ out.log[j] = <<p, "stat">>
                        /\ \A i \in 1..Len(out.log) :
                              /\ out.log[i] = <<p, "stat">> => i = j
                              /\ out.log[i] = <<p, "make">> => i < j
                              /\ Below(out.log[i][1], p) => i < j
                  /\ \A q \in PathsOf(arg.src) :
                        (Below(q, p) /\ ~BelowFailed(q)) =>
                            \E i \in 1..Len(out.log) :
                                out.log[i] = <<q, "make">>
                  /\ <<p, "stat">> \in arg.fail =>
                        Cardinality({i \in 1..Len(out.errors) :
                                       out.errors[i] = <<p, "stat">>}) = 1
        /\ out.node =
              clone_tree(arg.src, <<>>,
                         {f \in arg.fail : f[2] = "make"}, arg.order).node

\* C32, the case: a directory with a file in it is cloned into the root,
\* and the copy of its metadata fails after the file was linked.
C32_Witness ==
    /\ fn = "clone_tree"
    /\ arg.src.entries = [n \in {"x"} |-> Dir(2, [k \in {"y"} |-> File(1)])]
    /\ arg.fail = {<<<<"x">>, "stat">>}
    /\ out.log = << <<<<>>, "make">>, <<<<"x">>, "make">>,
                    <<<<"x", "y">>, "make">>, <<<<"x">>, "stat">>,
                    <<<<>>, "stat">> >>
    /\ out.errors = <<<<<<"x">>, "stat">>>>
    /\ NodeAt(out.node, <<"x", "y">>) = File(1)

\* C33: clone_tree comes to an end on every source tree, also on one with
\* links to a directory that is an ancestor of theirs and links to
\* nothing: the recursion is never given up, no operation is tried
\* outside the paths of the source tree or below a link, every directory
\* of the source is made at most once (once when nothing above it
\* failed), and every link that is made is a link with the target of its
\* source.
C33_LinksAreNotFollowed ==
    fn = "clone_tree" =>
        /\ out.raised \in {"", "BackupError", "OSError"}
        /\ \A i \in 1..Len(out.log) :
              /\ out.log[i][1] \in PathsOf(arg.src)
              /\ \A k \in 0..(Len(out.log[i][1]) - 1) :
                    NodeAt(arg.src, SubSeq(out.log[i][1], 1, k)).type = "dir"
        /\ \A p \in PathsOf(arg.src) :
              NodeAt(arg.src, p).type = "dir" =>
                  Cardinality({i \in 1..Len(out.log) :
                                 out.log[i] = <<p, "make">>})
                      = (IF BelowFailed(p) THEN 0 ELSE 1)
        /\ \A p \in PathsOf(out.node) :
              (out.made /\ NodeAt(arg.src, p).type = "link") =>
                  NodeAt(out.node, p) = Link(NodeAt(arg.src, p).target)

\* C33, the case: a tree with a sub-directory that holds a link to itself,
\* and with a link to nothing, is cloned without an error.
C33_Witness ==
    /\ fn = "clone_tree"
    /\ out.raised = ""
    /\ arg.src.entries = [n \in EntryNames |->
            IF n = "x"
            THEN Dir(2, [k \in EntryNames |->
                     IF k = "x" THEN Link(".") ELSE File(1)])
            ELSE Link("gone")]
    /\ NodeAt(out.node, <<"x", "x">>) = Link(".")
    /\ NodeAt(out.node, <<"x", "y">>) = File(1)
    /\ NodeAt(out.node, <<"y">>) = Link("gone")
    /\ Len(out.log) = 9

\* C34: clone_tree fails with BackupError and with nothing else, also when
\* the source cannot be listed or the destination cannot be made (it
\* exists); in these two cases nothing is made at the destination.
C34_CloneFailsWithBackupError ==
    fn = "clone_tree" =>
        /\ out.raised \in {"", "BackupError"}
        /\ <<<<>>, "make">> \in arg.fail =>
              /\ out.raised = "BackupError"
              /\ ~out.made

\* C35: the name of the directory of a Backup made by new_backup is the
\* ISO rendering of the timestamp of the Backup, in memory and in its
\* state file, whatever the clock does between the steps of new_backup.
C35_DirectoryNameIsTimestamp ==
    cur # NoBackup =>
        /\ cur.dir = isoformat(cur.timestamp)
        /\ StateFile(cur.dir).kind = "json" =>
              DictGet(ValueOf(StateFile(cur.dir).doc), "timestamp")
                  = JStr(cur.dir)

\* C36: of two processes constructing a Backup on one directory name at
\* most one succeeds; a process that fails has raised BackupError; the
\* state file of a directory is only written by the process whose os.mkdir
\* made the directory, so the file of the process that succeeded stays as
\* that process wrote it.
C36_Succeeded(p) == procs[p].pc \in {"logging", "done"}

C36_OneCreatorPerDirectory ==
    /\ [](\A p \in Procs :
            /\ procs[p].pc = "failed" =>
                  /\ procs[p].raised = "BackupError"
                  /\ procs[p].call = "mkdir" => ~procs[p].made
            /\ C36_Succeeded(p) =>
                  /\ StateFile(arg.dir[p]) = SavedFile(BackupOf(p))
                  /\ \A q \in Procs \ {p} :
                        arg.dir[q] = arg.dir[p] =>
                           /\ procs[q].pc # "done"
                           /\ ~procs[q].made)
    /\ [][\A d \in DirNames :
            disk'[d].file # disk[d].file =>
               \E p \in Procs :
                  /\ arg.dir[p] = d
                  /\ procs[p].made
                  /\ procs'[p] # procs[p]]_vars

\* Both processes were given one name; one has constructed its Backup and
\* the other failed at os.mkdir on the directory the first had made.
C36_Witness ==
    /\ fn = "Backup"
    /\ arg.dir[1] = arg.dir[2]
    /\ procs[1].pc = "done"
    /\ procs[2].pc = "failed"
    /\ procs[2].errno = "EEXIST"
    /\ procs[2].timestamp # procs[1].timestamp
    /\ StateFile(arg.dir[1]) = SavedFile(BackupOf(1))

\* C37: Backup(directory) reports "already exists" only when os.mkdir
\* found the directory there; a missing parent directory or a failure of
\* the first write of the state file is not reported as "already exists".
C37_AlreadyExistsOnlyWhenExists ==
    \A p \in Procs :
       procs[p].message = "already exists" =>
          /\ procs[p].call = "mkdir"
          /\ procs[p].errno = "EEXIST"

====
